---------------------------- MODULE Spec2Model ----------------------------
(***************************************************************************)
(* A model of osu_replay_parser: the nom-based header decoder of           *)
(* src/src/parser.rs (uleb128, utf8_string, osr_string, game_mode,         *)
(* replay_parser, Replay::parse), the error trace of src/src/errors.rs and *)
(* the action-stream decoder of src/src/replay.rs (decompress_lzma,        *)
(* get_actions).                                                           *)
(*                                                                         *)
(* Byte slices (&[u8]) are sequences over 0..255.  A u32 that is built by  *)
(* shifting and or-ing (uleb128) is a set of bit positions within 0..31,   *)
(* so that bits shifted past bit 31 are lost exactly as in the code.  The  *)
(* fixed-width little-endian integers are numbers.  A str / String is the  *)
(* sequence of its UTF-8 bytes; the decompressed action text is a sequence *)
(* of one-character strings.                                               *)
(***************************************************************************)
EXTENDS Integers, Sequences, FiniteSets, TLC

VARIABLES
    full,             \* the whole buffer the caller holds
    input,            \* the slice handed to the function under test
    overflow_checks,  \* the build profile: TRUE = overflow checks on (debug)
    result,           \* what the last call returned
    replay,           \* the Replay value bound in the caller
    owned,            \* TRUE while the caller's binding still owns `replay`
    lzma,             \* what decompress_lzma yields for replay.compressed_data
    calls,            \* number of get_actions calls made so far
    pc                \* the caller's position: "start", then the call it made

vars == <<full, input, overflow_checks, result, replay, owned, lzma, calls, pc>>

--------------------------------------------------------------------------
(* Slices and results                                                      *)

\* &input[n..]: the slice without its first n elements.
Drop(s, n) == SubSeq(s, n + 1, Len(s))

\* &input[..n]: the first n elements.
Prefix(s, n) == SubSeq(s, 1, n)

None == [kind |-> "None"]

\* Ok((rest, value)) of an IResult.
Ok(rest, value) == [kind |-> "Ok", rest |-> rest, value |-> value]

\* Err(nom::Err::Error(VerboseError { errors })).
Err(errors) == [kind |-> "Err", errors |-> errors]

\* A panic: the call does not return.
Panic == [kind |-> "Panic"]

\* VerboseError::from_error_kind(input, ErrorKind::Eof): one (input, Nom(Eof)) entry.
from_error_kind_Eof(in) == <<[input |-> in, kind |-> "Nom", what |-> "Eof"]>>

\* errors.rs from_context: one (input, Context(context)) entry.
from_context(in, ctx) == <<[input |-> in, kind |-> "Context", what |-> ctx]>>

\* A context that puts its label in front of the trace instead of behind it.
context_prepending(ctx, in, r) ==
    IF r.kind = "Err"
    THEN Err(<<[input |-> in, kind |-> "Context", what |-> ctx]>> \o r.errors)
    ELSE r

\* nom::error::context(ctx, f)(input): on an error of f, add_context pushes
\* (input, Context(ctx)) at the END of the errors vector.
context(ctx, in, r) ==
    IF r.kind = "Err"
    THEN Err(Append(r.errors, [input |-> in, kind |-> "Context", what |-> ctx]))
    ELSE r

--------------------------------------------------------------------------
(* u32 arithmetic of uleb128, on sets of bit positions                     *)

\* `*byte as u32`: the bits of a byte.
ByteBits(b) == {j \in 0..7 : (b \div (2 ^ j)) % 2 = 1}

\* A decoder that forgets the mask and keeps the continuation bit as data.
And7F_unmasked(bits) == bits

\* x & 0x7F
And7F(bits) == bits \cap (0..6)

\* byte & 0x80 == 0
HighBitClear(b) == b < 128

\* x | y
BitOr(x, y) == x \cup y

\* `x << shift` on a u32 panics with overflow checks when shift >= 32 ...
ShlOverflows(shift) == shift >= 32

\* ... and without them shifts by shift mod 32; bits moved past bit 31 are lost.
Shl(bits, shift) == {j + (shift % 32) : j \in bits} \cap (0..31)

RECURSIVE BitsToNat(_)
BitsToNat(bits) ==
    IF bits = {} THEN 0
    ELSE LET j == CHOOSE k \in bits : TRUE
         IN  2 ^ j + BitsToNat(bits \ {j})

\* `length` (u32) as the usize count of take(): exact below 2^30, and
\* 2^30 (more than any slice of the model holds) from there on.
as_count(bits) ==
    IF \E j \in bits : j >= 30 THEN 2 ^ 30 ELSE BitsToNat(bits)

--------------------------------------------------------------------------
(* parser.rs: uleb128                                                      *)

\* The body of `for (bytes, byte) in input.iter().enumerate()`, from index
\* `bytes` on, with the accumulated result and shift.
RECURSIVE uleb128_loop(_, _, _, _, _)
uleb128_loop(in, bytes, res, shift, checks) ==
    IF bytes >= Len(in)
    THEN Err(from_error_kind_Eof(in))
    ELSE LET byte == in[bytes + 1]
         IN  IF checks /\ ShlOverflows(shift)
             THEN Panic
             ELSE LET res2 == BitOr(res, Shl(And7F(ByteBits(byte)), shift))
                  IN  IF HighBitClear(byte)
                      THEN Ok(Drop(in, bytes + 1), res2)
                      ELSE uleb128_loop(in, bytes + 1, res2, shift + 7, checks)

uleb128(in, checks) == uleb128_loop(in, 0, {}, 0, checks)

--------------------------------------------------------------------------
(* nom primitives used by parser.rs (the `complete` variants): each fails  *)
(* with (input, Nom(Eof)) when the slice is shorter than what it reads.    *)

RECURSIVE LeUnsigned(_)
\* The little-endian unsigned value of a byte slice.
LeUnsigned(bytes) ==
    IF bytes = <<>> THEN 0
    ELSE bytes[1] + 256 * LeUnsigned(Drop(bytes, 1))

\* The little-endian two's-complement value of a byte slice: with the top
\* bit set it is U - 2^(8n) = -(1 + the value of the complemented bytes).
LeSigned(bytes) ==
    IF bytes[Len(bytes)] >= 128
    THEN -(1 + LeUnsigned([i \in 1..Len(bytes) |-> 255 - bytes[i]]))
    ELSE LeUnsigned(bytes)

\* le_u8
byte(in) ==
    IF Len(in) < 1 THEN Err(from_error_kind_Eof(in))
    ELSE Ok(Drop(in, 1), in[1])

\* An le_u16 that reads its two bytes big-endian.
short_big_endian(in) ==
    IF Len(in) < 2 THEN Err(from_error_kind_Eof(in))
    ELSE Ok(Drop(in, 2), in[2] + 256 * in[1])

\* le_u16
short(in) ==
    IF Len(in) < 2 THEN Err(from_error_kind_Eof(in))
    ELSE Ok(Drop(in, 2), LeUnsigned(Prefix(in, 2)))

\* le_u32
integer(in) ==
    IF Len(in) < 4 THEN Err(from_error_kind_Eof(in))
    ELSE Ok(Drop(in, 4), LeUnsigned(Prefix(in, 4)))

\* An le_i64 that reads a missing value as zero instead of failing.
le_i64_zero_filled(in) ==
    IF Len(in) < 8 THEN Ok(<<>>, 0)
    ELSE Ok(Drop(in, 8), LeSigned(Prefix(in, 8)))

le_i64(in) ==
    IF Len(in) < 8 THEN Err(from_error_kind_Eof(in))
    ELSE Ok(Drop(in, 8), LeSigned(Prefix(in, 8)))

\* A take that hands out the bytes without advancing the slice.
take_without_advance(count, in) ==
    IF Len(in) < count THEN Err(from_error_kind_Eof(in))
    ELSE Ok(in, Prefix(in, count))

\* take(count)
take(count, in) ==
    IF Len(in) < count THEN Err(from_error_kind_Eof(in))
    ELSE Ok(Drop(in, count), Prefix(in, count))

--------------------------------------------------------------------------
(* parser.rs: utf8_string, osr_string, game_mode                           *)

IsCont(s, i) == i <= Len(s) /\ s[i] \in 128..191

\* std::str::from_utf8 accepts exactly the well-formed UTF-8 byte sequences.
RECURSIVE ValidUtf8From(_, _)
ValidUtf8From(s, i) ==
    IF i > Len(s) THEN TRUE
    ELSE LET b == s[i]
             second(lo, hi) == i + 1 <= Len(s) /\ s[i + 1] \in lo..hi
         IN  CASE b < 128 -> ValidUtf8From(s, i + 1)
               [] b \in 194..223 ->
                    IsCont(s, i + 1) /\ ValidUtf8From(s, i + 2)
               [] b \in 224..239 ->
                    /\ \/ b = 224 /\ second(160, 191)
                       \/ b \in 225..236 /\ second(128, 191)
                       \/ b = 237 /\ second(128, 159)
                       \/ b \in 238..239 /\ second(128, 191)
                    /\ IsCont(s, i + 2)
                    /\ ValidUtf8From(s, i + 3)
               [] b \in 240..244 ->
                    /\ \/ b = 240 /\ second(144, 191)
                       \/ b \in 241..243 /\ second(128, 191)
                       \/ b = 244 /\ second(128, 143)
                    /\ IsCont(s, i + 2)
                    /\ IsCont(s, i + 3)
                    /\ ValidUtf8From(s, i + 4)
               [] OTHER -> FALSE

from_utf8_ok(s) == ValidUtf8From(s, 1)

utf8_string(in) ==
    IF from_utf8_ok(in)
    THEN Ok(<<>>, in)
    ELSE Err(from_context(in, "Error converting bytes to UTF-8"))

osr_string(in, checks) ==
    LET present == byte(in)
    IN  IF present.kind # "Ok" THEN present
        ELSE IF present.value = 0 THEN Ok(present.rest, <<>>)
        ELSE
        LET length == context("Error parsing ULEB128 for String length",
                              present.rest, uleb128(present.rest, checks))
        IN  IF length.kind # "Ok" THEN length
            ELSE
            LET value == context("Expected more bytes for string", length.rest,
                                 take(as_count(length.value), length.rest))
            IN  IF value.kind # "Ok" THEN value
                ELSE
                LET string == utf8_string(value.value)
                IN  IF string.kind # "Ok" THEN string
                    ELSE Ok(value.rest, string.value)

\* A game_mode whose wildcard arm falls back to the #[default] variant.
game_mode_with_default(in) ==
    LET game_mode_int == byte(in)
    IN  IF game_mode_int.kind # "Ok" THEN game_mode_int
        ELSE CASE game_mode_int.value = 1 -> Ok(game_mode_int.rest, "Taiko")
               [] game_mode_int.value = 2 -> Ok(game_mode_int.rest, "CatchTheBeat")
               [] game_mode_int.value = 3 -> Ok(game_mode_int.rest, "Mania")
               [] OTHER -> Ok(game_mode_int.rest, "Osu")

game_mode(in) ==
    LET game_mode_int == byte(in)
    IN  IF game_mode_int.kind # "Ok" THEN game_mode_int
        ELSE CASE game_mode_int.value = 0 -> Ok(game_mode_int.rest, "Osu")
               [] game_mode_int.value = 1 -> Ok(game_mode_int.rest, "Taiko")
               [] game_mode_int.value = 2 -> Ok(game_mode_int.rest, "CatchTheBeat")
               [] game_mode_int.value = 3 -> Ok(game_mode_int.rest, "Mania")
               [] OTHER -> Err(from_context(game_mode_int.rest, "Invalid Game Mode"))

\* replay.rs: impl TryFrom<u8> for GameMode
GameMode_try_from(value) ==
    CASE value = 0 -> [kind |-> "Ok", value |-> "Osu"]
      [] value = 1 -> [kind |-> "Ok", value |-> "Taiko"]
      [] value = 2 -> [kind |-> "Ok", value |-> "CatchTheBeat"]
      [] value = 3 -> [kind |-> "Ok", value |-> "Mania"]
      [] OTHER -> [kind |-> "Err", error |-> "InvalidValueError"]

--------------------------------------------------------------------------
(* parser.rs: replay_parser and Replay::parse                              *)

\* The decode steps of replay_parser, one per `let (input, x) = context(..)`
\* line, in source order: the context label, the binding and the parser.
Steps == <<
    [label |-> "Error parsing game mode",         field |-> "game_mode",         parser |-> "game_mode"],
    [label |-> "Error parsing game version",      field |-> "version",           parser |-> "integer"],
    [label |-> "Error parsing beatmap MD5",       field |-> "beatmap_md5",       parser |-> "osr_string"],
    [label |-> "Error parsing player name",       field |-> "player_name",       parser |-> "osr_string"],
    [label |-> "Error parsing replay MD5",        field |-> "replay_md5",        parser |-> "osr_string"],
    [label |-> "Error parsing 300s count",        field |-> "n300",              parser |-> "short"],
    [label |-> "Error parsing 100s count",        field |-> "n100",              parser |-> "short"],
    [label |-> "Error parsing 50s count",         field |-> "n50",               parser |-> "short"],
    [label |-> "Error parsing gekis count",       field |-> "n_geki",            parser |-> "short"],
    [label |-> "Error parsing katus count",       field |-> "n_katu",            parser |-> "short"],
    [label |-> "Error parsing misses count",      field |-> "n_miss",            parser |-> "short"],
    [label |-> "Error parsing total score",       field |-> "total_score",       parser |-> "integer"],
    [label |-> "Error parsing greatest combo",    field |-> "greatest_combo",    parser |-> "short"],
    [label |-> "Error parsing perfect",           field |-> "perfect",           parser |-> "byte"],
    [label |-> "Error parsing mods",              field |-> "mods",              parser |-> "integer"],
    [label |-> "Error parsing life bar",          field |-> "life_bar",          parser |-> "osr_string"],
    [label |-> "Error parsing time stamp",        field |-> "time_stamp",        parser |-> "le_i64"],
    [label |-> "Error parsing compressed length", field |-> "compressed_length", parser |-> "integer"],
    [label |-> "Error parsing compressed data",   field |-> "compressed_data",   parser |-> "take"],
    [label |-> "Error parsing online score ID",   field |-> "online_score_id",   parser |-> "le_i64"] >>

\* The fields of struct Replay (replay.rs); compressed_length is a local of
\* replay_parser only.
ReplayFields ==
    {Steps[i].field : i \in 1..Len(Steps)} \ {"compressed_length"}

\* The bindings of replay_parser before its first step.
NoBindings == [f \in {Steps[i].field : i \in 1..Len(Steps)} |-> 0]

\* The parser a step applies to the current slice; take reads as many bytes
\* as the compressed_length bound one step earlier.
RunStep(step, in, bound, checks) ==
    CASE step.parser = "game_mode"  -> game_mode(in)
      [] step.parser = "integer"    -> integer(in)
      [] step.parser = "short"      -> short(in)
      [] step.parser = "byte"       -> byte(in)
      [] step.parser = "le_i64"     -> le_i64(in)
      [] step.parser = "osr_string" -> osr_string(in, checks)
      [] step.parser = "take"       -> take(bound.compressed_length, in)

\* replay_parser from step i on: each step runs on the slice the previous
\* one left, and `?` returns the first error.
RECURSIVE replay_parser_from(_, _, _, _)
replay_parser_from(i, in, bound, checks) ==
    IF i > Len(Steps)
    THEN Ok(in, [f \in ReplayFields |-> bound[f]])
    ELSE LET r == context(Steps[i].label, in, RunStep(Steps[i], in, bound, checks))
         IN  IF r.kind # "Ok" THEN r
             ELSE replay_parser_from(i + 1, r.rest,
                                     [bound EXCEPT ![Steps[i].field] = r.value], checks)

replay_parser(in, checks) == replay_parser_from(1, in, NoBindings, checks)

\* Replay::parse: finish() turns nom's Err into the VerboseError, `?` wraps
\* it into ReplayDataError::NomParsingError; the rest of the input is dropped.
Replay_parse(in, checks) ==
    LET r == context("Error parsing replay file", in, replay_parser(in, checks))
    IN  CASE r.kind = "Ok"  -> [kind |-> "Ok", value |-> r.value]
          [] r.kind = "Err" -> [kind |-> "Err", error |-> "NomParsingError", errors |-> r.errors]
          [] OTHER -> Panic

--------------------------------------------------------------------------
(* Specification SpecUleb: uleb128 applied to every slice over UlebBytes   *)
(* of at most MaxUlebInput bytes, in both build profiles.                  *)

MaxUlebInput == 6

UlebBytes == {0, 15, 127, 128, 255}

RECURSIVE SeqsUpTo(_, _)
SeqsUpTo(S, n) ==
    IF n = 0 THEN {<<>>}
    ELSE LET shorter == SeqsUpTo(S, n - 1)
         IN  shorter \cup {Append(s, x) : s \in {t \in shorter : Len(t) = n - 1}, x \in S}

NoReplay == [kind |-> "None"]

InitUleb ==
    /\ input \in SeqsUpTo(UlebBytes, MaxUlebInput)
    /\ full = input
    /\ overflow_checks \in BOOLEAN
    /\ result = None
    /\ replay = NoReplay
    /\ owned = FALSE
    /\ lzma = None
    /\ calls = 0
    /\ pc = "start"

CallUleb128 ==
    /\ pc = "start"
    /\ result' = uleb128(input, overflow_checks)
    /\ pc' = "uleb128"
    /\ UNCHANGED <<full, input, overflow_checks, replay, owned, lzma, calls>>

NextUleb == CallUleb128

SpecUleb == InitUleb /\ [][NextUleb]_vars

--------------------------------------------------------------------------
(* Claims about uleb128 (checked under SpecUleb)                           *)

\* The slice starts with an encoding of k bytes: k-1 bytes with the high
\* bit set, then one with the high bit clear.
EncodingOfLen(in, k) ==
    /\ k \in 1..Len(in)
    /\ \A i \in 1..(k - 1) : in[i] >= 128
    /\ in[k] < 128

\* Bit p of the number Sum_i (enc[i] & 0x7F) << (7*(i-1)): bit (p mod 7) of
\* the byte number p div 7.
GroupBit(enc, p) == ((enc[(p \div 7) + 1] % 128) \div (2 ^ (p % 7))) % 2 = 1

EncodedBits(enc) == {p \in 0..(7 * Len(enc) - 1) : GroupBit(enc, p)}

RECURSIVE GroupSum(_, _)
\* Sum_{i >= from} (enc[i] & 0x7F) * 128^(i - from)
GroupSum(enc, from) ==
    IF from > Len(enc) THEN 0
    ELSE (enc[from] % 128) + 128 * GroupSum(enc, from + 1)

UlebCalled == pc = "uleb128"

\* C5: for a valid encoding (1 to 5 bytes) of a value v < 2^32 followed by
\* any bytes `rest`, uleb128 returns (v, rest), v being the sum of the 7-bit
\* groups shifted by 7*i, in either build profile.
C5_UlebDecodesValue ==
    UlebCalled =>
        \A k \in 1..5 :
            (EncodingOfLen(input, k) /\ EncodedBits(Prefix(input, k)) \subseteq 0..31) =>
                /\ result.kind = "Ok"
                /\ result.rest = Drop(input, k)
                /\ result.value = EncodedBits(Prefix(input, k))
                /\ (result.value \subseteq 0..27 =>
                        BitsToNat(result.value) = GroupSum(Prefix(input, k), 1))

\* A five-byte encoding of 0xFFFFFFFF followed by one more byte was decoded.
C5_Witness ==
    /\ UlebCalled
    /\ input = <<255, 255, 255, 255, 15, 128>>
    /\ result.kind = "Ok"
    /\ result.value = 0..31
    /\ result.rest = <<128>>

NoTerminator(in) == \A i \in 1..Len(in) : in[i] >= 128

\* C10 (as claimed): on an input without a terminating byte uleb128 returns
\* the Eof error, whatever the number of continuation bytes.
C10_NoTerminatorIsEof ==
    (UlebCalled /\ NoTerminator(input)) =>
        (result.kind = "Err" /\ result.errors = from_error_kind_Eof(input))

--------------------------------------------------------------------------
(* The error kinds of the specification's taxonomy, read off the innermost *)
(* entry of a VerboseError trace.                                          *)

ErrorKindOf(errors) ==
    LET root == errors[1]
    IN  CASE root.kind = "Nom" /\ root.what = "Eof" -> "UnexpectedEndOfInput"
          [] root.kind = "Context" /\ root.what = "Invalid Game Mode" -> "InvalidEnumValue"
          [] root.kind = "Context" /\ root.what = "Error converting bytes to UTF-8" -> "InvalidUtf8"
          [] OTHER -> "Other"

--------------------------------------------------------------------------
(* Specification SpecMode: the game-mode byte, every value 0..255, decoded *)
(* by game_mode, by GameMode::try_from and as the first byte of a buffer   *)
(* handed to Replay::parse.                                                *)

\* A header after its mode byte: version 20200101, the four strings absent,
\* every counter 0, an empty compressed blob.
PlainHeaderRest ==
    <<165, 58, 52, 1>> \o <<0, 0, 0>> \o [i \in 1..23 |-> 0] \o <<0>>
        \o [i \in 1..8 |-> 0] \o <<0, 0, 0, 0>> \o [i \in 1..8 |-> 0]

InitMode ==
    /\ \E b \in 0..255 : \E tail \in {<<>>, PlainHeaderRest} : input = <<b>> \o tail
    /\ full = input
    /\ overflow_checks \in BOOLEAN
    /\ result = None
    /\ replay = NoReplay
    /\ owned = FALSE
    /\ lzma = None
    /\ calls = 0
    /\ pc = "start"

CallGameMode ==
    /\ pc = "start"
    /\ result' = game_mode(input)
    /\ pc' = "game_mode"
    /\ UNCHANGED <<full, input, overflow_checks, replay, owned, lzma, calls>>

CallTryFrom ==
    /\ pc = "start"
    /\ result' = GameMode_try_from(input[1])
    /\ pc' = "try_from"
    /\ UNCHANGED <<full, input, overflow_checks, replay, owned, lzma, calls>>

CallParseMode ==
    /\ pc = "start"
    /\ result' = Replay_parse(input, overflow_checks)
    /\ pc' = "parse"
    /\ UNCHANGED <<full, input, overflow_checks, replay, owned, lzma, calls>>

NextMode == CallGameMode \/ CallTryFrom \/ CallParseMode

SpecMode == InitMode /\ [][NextMode]_vars

\* The four named variants, by byte value.
VariantOf(b) == <<"Osu", "Taiko", "CatchTheBeat", "Mania">>[b + 1]

\* C3: the game-mode byte decodes exactly for 0, 1, 2, 3, to Osu, Taiko,
\* CatchTheBeat, Mania; any other byte fails the header decode with
\* InvalidEnumValue, and no variant is substituted for it.
C3_GameModeByte ==
    LET b == input[1]
    IN  /\ pc = "game_mode" =>
            IF b \in 0..3
            THEN result.kind = "Ok" /\ result.value = VariantOf(b)
                 /\ result.rest = Drop(input, 1)
            ELSE result.kind = "Err" /\ ErrorKindOf(result.errors) = "InvalidEnumValue"
        /\ pc = "try_from" =>
            IF b \in 0..3
            THEN result.kind = "Ok" /\ result.value = VariantOf(b)
            ELSE result.kind = "Err" /\ result.error = "InvalidValueError"
        /\ pc = "parse" =>
            IF b \in 0..3
            THEN Drop(input, 1) = PlainHeaderRest =>
                    (result.kind = "Ok" /\ result.value.game_mode = VariantOf(b))
            ELSE result.kind = "Err" /\ ErrorKindOf(result.errors) = "InvalidEnumValue"

\* The byte 99 at the head of an otherwise valid header was refused.
C3_Witness ==
    /\ pc = "parse"
    /\ input = <<99>> \o PlainHeaderRest
    /\ result.kind = "Err"
    /\ ErrorKindOf(result.errors) = "InvalidEnumValue"

--------------------------------------------------------------------------
(* Specification SpecString: osr_string applied to every slice over        *)
(* StringBytes of at most MaxStringInput bytes.                            *)

MaxStringInput == 6

\* 0 = absent / NUL, 1 and 2 = lengths and ASCII, 129 = a ULEB128
\* continuation byte and a UTF-8 continuation byte, 195 = a UTF-8 lead byte.
StringBytes == {0, 1, 2, 129, 195}

InitString ==
    /\ input \in SeqsUpTo(StringBytes, MaxStringInput)
    /\ full = input
    /\ overflow_checks \in BOOLEAN
    /\ result = None
    /\ replay = NoReplay
    /\ owned = FALSE
    /\ lzma = None
    /\ calls = 0
    /\ pc = "start"

CallOsrString ==
    /\ pc = "start"
    /\ result' = osr_string(input, overflow_checks)
    /\ pc' = "osr_string"
    /\ UNCHANGED <<full, input, overflow_checks, replay, owned, lzma, calls>>

NextString == CallOsrString

SpecString == InitString /\ [][NextString]_vars

\* The length a k-byte encoding states, when it is below 2^20.
StatedLength(enc) == BitsToNat(EncodedBits(enc))

\* C4: osr_string consumes 1 byte and returns "" when the presence byte is
\* 0x00; otherwise, given a length L encoded in k (1 to 5) bytes and L
\* following bytes of valid UTF-8, it returns those L bytes and consumes
\* exactly 1 + k + L bytes.
C4_OsrStringConsumes ==
    (pc = "osr_string" /\ Len(input) >= 1) =>
        /\ input[1] = 0 => result = Ok(Drop(input, 1), <<>>)
        /\ input[1] # 0 =>
            \A k \in 1..5 :
                LET enc == SubSeq(input, 2, 1 + k)
                IN  (/\ EncodingOfLen(Drop(input, 1), k)
                     /\ EncodedBits(enc) \subseteq 0..19
                     /\ Len(input) >= 1 + k + StatedLength(enc)
                     /\ from_utf8_ok(SubSeq(input, 2 + k, 1 + k + StatedLength(enc))))
                    => result = Ok(Drop(input, 1 + k + StatedLength(enc)),
                                   SubSeq(input, 2 + k, 1 + k + StatedLength(enc)))

\* A present string with a two-byte length (L = 1) was decoded and one
\* byte was left over.
C4_Witness ==
    /\ pc = "osr_string"
    /\ input = <<2, 129, 0, 1, 195>>
    /\ result = Ok(<<195>>, <<1>>)

--------------------------------------------------------------------------
(* Specification SpecParse: Replay::parse applied to buffers assembled     *)
(* from field encodings, whole or cut to a proper prefix.                  *)

MaxBlobLen == 2

ModeEncodings == {<<0>>, <<3>>, <<99>>}

VersionEncoding == <<165, 58, 52, 1>>

Absent == <<0>>

\* The four conditional strings (beatmap hash, player name, replay hash,
\* life bar): each absent or present with a value of its own ("A", "é",
\* "B" with a two-byte length, "AB") ...
StringChoices ==
    [1..4 -> BOOLEAN]

PresentString(i) ==
    <<<<11, 1, 65>>, <<11, 2, 195, 169>>, <<11, 129, 0, 66>>, <<11, 2, 65, 66>>>>[i]

\* ... or one of three malformed layouts: a player name and a life bar that
\* are not UTF-8, and a replay hash whose length has six ULEB128 bytes.
MalformedStrings == {
    <<<<11, 1, 65>>, <<11, 1, 255>>, Absent, Absent>>,
    <<<<11, 1, 65>>, Absent, <<11, 128, 128, 128, 128, 128, 0>>, Absent>>,
    <<Absent, <<11, 2, 195, 169>>, Absent, <<11, 2, 195, 65>>>> }

StringEncodings ==
    {[i \in 1..4 |-> IF c[i] THEN PresentString(i) ELSE Absent] : c \in StringChoices}
        \cup MalformedStrings

\* The fixed-width fields: all zero, or a different byte pattern in each
\* (a negative time stamp, a positive online score id).
NumberEncodings == {
    [counters   |-> [i \in 1..12 |-> 0], score |-> <<0, 0, 0, 0>>, combo |-> <<0, 0>>,
     perfect    |-> <<0>>, mods |-> <<0, 0, 0, 0>>,
     time_stamp |-> [i \in 1..8 |-> 0], online |-> [i \in 1..8 |-> 0]],
    [counters   |-> [i \in 1..12 |-> i], score |-> <<13, 14, 15, 16>>, combo |-> <<17, 18>>,
     perfect    |-> <<1>>, mods |-> <<19, 20, 21, 22>>,
     time_stamp |-> <<254, 255, 255, 255, 255, 255, 255, 255>>,
     online     |-> <<7, 1, 0, 0, 0, 0, 0, 0>>] }

\* A compressed blob of n bytes, every byte different.
Blob(n) == [i \in 1..n |-> 92 + i]

Trailers == {<<>>, <<42>>}

Assemble(mode, strings, numbers, n, trailer) ==
    mode \o VersionEncoding \o strings[1] \o strings[2] \o strings[3]
         \o numbers.counters \o numbers.score \o numbers.combo \o numbers.perfect
         \o numbers.mods \o strings[4] \o numbers.time_stamp
         \o <<n, 0, 0, 0>> \o Blob(n) \o numbers.online \o trailer

InitParse ==
    /\ \E mode \in ModeEncodings, strings \in StringEncodings,
          numbers \in NumberEncodings, n \in 0..MaxBlobLen, trailer \in Trailers :
            full = Assemble(mode, strings, numbers, n, trailer)
    /\ input = full
    /\ overflow_checks \in BOOLEAN
    /\ result = None
    /\ replay = NoReplay
    /\ owned = FALSE
    /\ lzma = None
    /\ calls = 0
    /\ pc = "start"

\* The caller keeps only the first n bytes of the buffer.
Truncate ==
    /\ pc = "start"
    /\ \E n \in 0..(Len(full) - 1) : input' = Prefix(full, n)
    /\ pc' = "cut"
    /\ UNCHANGED <<full, overflow_checks, result, replay, owned, lzma, calls>>

CallParse ==
    /\ pc \in {"start", "cut"}
    /\ result' = Replay_parse(input, overflow_checks)
    /\ pc' = "parse"
    /\ UNCHANGED <<full, input, overflow_checks, replay, owned, lzma, calls>>

NextParse == Truncate \/ CallParse

SpecParse == InitParse /\ [][NextParse]_vars

--------------------------------------------------------------------------
(* The file format as the specification lays it out (section 6): the       *)
(* fields in order with their encodings, and where each starts in a given  *)
(* buffer.  The claims about Replay::parse are stated against this layout. *)

Format == <<
    [field |-> "game_mode",         enc |-> "mode"],
    [field |-> "version",           enc |-> "u32"],
    [field |-> "beatmap_md5",       enc |-> "str"],
    [field |-> "player_name",       enc |-> "str"],
    [field |-> "replay_md5",        enc |-> "str"],
    [field |-> "n300",              enc |-> "u16"],
    [field |-> "n100",              enc |-> "u16"],
    [field |-> "n50",               enc |-> "u16"],
    [field |-> "n_geki",            enc |-> "u16"],
    [field |-> "n_katu",            enc |-> "u16"],
    [field |-> "n_miss",            enc |-> "u16"],
    [field |-> "total_score",       enc |-> "u32"],
    [field |-> "greatest_combo",    enc |-> "u16"],
    [field |-> "perfect",           enc |-> "u8"],
    [field |-> "mods",              enc |-> "u32"],
    [field |-> "life_bar",          enc |-> "str"],
    [field |-> "time_stamp",        enc |-> "i64"],
    [field |-> "compressed_length", enc |-> "u32"],
    [field |-> "compressed_data",   enc |-> "blob"],
    [field |-> "online_score_id",   enc |-> "i64"] >>

FixedWidth(enc) ==
    CASE enc \in {"mode", "u8"} -> 1
      [] enc = "u16" -> 2
      [] enc = "u32" -> 4
      [] enc = "i64" -> 8

\* The unsigned number the n <= 4 bytes after offset off spell, low byte first.
NumberAt(in, off, n) ==
    in[off + 1]
      + (IF n >= 2 THEN 256 * in[off + 2] ELSE 0)
      + (IF n >= 3 THEN 65536 * in[off + 3] ELSE 0)
      + (IF n >= 4 THEN 16777216 * in[off + 4] ELSE 0)

\* The number of bytes of the ULEB128 length that starts after offset off
\* (0 when no byte with a clear high bit follows).
LengthBytes(in, off) ==
    IF \E k \in 1..(Len(in) - off) : in[off + k] < 128
    THEN CHOOSE k \in 1..(Len(in) - off) :
            in[off + k] < 128 /\ \A j \in 1..(k - 1) : in[off + j] >= 128
    ELSE 0

\* The width of the field that starts at offset off, and whether the whole
\* field lies in the buffer and is decodable (a known mode, valid UTF-8).
FieldWidth(in, off, enc) ==
    CASE enc = "str" ->
            IF in[off + 1] = 0 THEN 1
            ELSE LET k == LengthBytes(in, off + 1)
                 IN  1 + k + StatedLength(SubSeq(in, off + 2, off + 1 + k))
      [] enc = "blob" -> NumberAt(in, off - 4, 4)
      [] OTHER -> FixedWidth(enc)

FieldDecodable(in, off, enc) ==
    CASE enc = "str" ->
            /\ off + 1 <= Len(in)
            /\ in[off + 1] # 0 =>
                LET k == LengthBytes(in, off + 1)
                IN  /\ k > 0
                    /\ EncodedBits(SubSeq(in, off + 2, off + 1 + k)) \subseteq 0..19
                    /\ off + FieldWidth(in, off, enc) <= Len(in)
                    /\ from_utf8_ok(SubSeq(in, off + 2 + k, off + FieldWidth(in, off, enc)))
      [] enc = "mode" -> off + 1 <= Len(in) /\ in[off + 1] \in 0..3
      [] enc = "blob" -> off + NumberAt(in, off - 4, 4) <= Len(in)
      [] OTHER -> off + FixedWidth(enc) <= Len(in)

\* The start offsets of the fields, each at the end of the one before it,
\* up to and including the first field that is not decodable; when all 20
\* are decodable, the offset after the last one is added.
RECURSIVE LayoutFrom(_, _, _, _)
LayoutFrom(in, i, off, acc) ==
    IF i > Len(Format) THEN Append(acc, off)
    ELSE IF ~FieldDecodable(in, off, Format[i].enc) THEN Append(acc, off)
    ELSE LayoutFrom(in, i + 1, off + FieldWidth(in, off, Format[i].enc), Append(acc, off))

Layout(in) == LayoutFrom(in, 1, 0, <<>>)

\* The first field of the buffer that is not decodable (21 when all are).
FirstBadField(in) ==
    LET offs == Layout(in)
    IN  IF Len(offs) = Len(Format) + 1 THEN Len(Format) + 1
        ELSE Len(offs)

RECURSIVE ShiftRightBytes(_, _)
\* v shifted right by n bytes (arithmetic shift: floor division).
ShiftRightBytes(v, n) == IF n = 0 THEN v ELSE ShiftRightBytes(v \div 256, n - 1)

\* v is the number whose n-byte little-endian (two's complement, when
\* signed) representation lies after offset off.
IsLittleEndianAt(v, in, off, n, signed) ==
    /\ \A i \in 1..n : in[off + i] = ShiftRightBytes(v, i - 1) % 256
    /\ IF signed
       THEN ShiftRightBytes(v, n) = (IF in[off + n] >= 128 THEN -1 ELSE 0)
       ELSE ShiftRightBytes(v, n) = 0

\* The value v of a record field is the one found at offset off.
FieldHolds(v, in, off, enc) ==
    CASE enc = "mode" -> v = VariantOf(in[off + 1])
      [] enc = "u8"   -> v = in[off + 1]
      [] enc = "u16"  -> IsLittleEndianAt(v, in, off, 2, FALSE)
      [] enc = "u32"  -> IsLittleEndianAt(v, in, off, 4, FALSE)
      [] enc = "i64"  -> IsLittleEndianAt(v, in, off, 8, TRUE)
      [] enc = "str"  ->
            IF in[off + 1] = 0 THEN v = <<>>
            ELSE v = SubSeq(in, off + 2 + LengthBytes(in, off + 1),
                            off + FieldWidth(in, off, enc))
      [] enc = "blob" ->
            /\ Len(v) = NumberAt(in, off - 4, 4)
            /\ v = SubSeq(in, off + 1, off + NumberAt(in, off - 4, 4))

Parsed == pc = "parse"

\* C1: when Replay::parse succeeds, every field of the record is the value
\* found at its position in the fixed order, read little-endian, each
\* field starting where the previous one ended, the compressed data being
\* exactly `compressed length` bytes.
C1_FieldsInOrder ==
    (Parsed /\ result.kind = "Ok") =>
        LET offs == Layout(input)
        IN  /\ Len(offs) = Len(Format) + 1
            /\ offs[Len(Format) + 1] <= Len(input)
            /\ DOMAIN result.value = ReplayFields
            /\ \A i \in 1..Len(Format) :
                  Format[i].field \in ReplayFields =>
                      FieldHolds(result.value[Format[i].field], input, offs[i], Format[i].enc)

AllPresent == [i \in 1..4 |-> PresentString(i)]

DistinctNumbers == CHOOSE numbers \in NumberEncodings : numbers.perfect = <<1>>

\* A buffer with four present strings, different numbers in every field
\* and a two-byte blob was decoded into the record it spells.
C1_Witness ==
    /\ Parsed
    /\ input = Assemble(<<3>>, AllPresent, DistinctNumbers, 2, <<>>)
    /\ result.kind = "Ok"
    /\ result.value.game_mode = "Mania"
    /\ result.value.player_name = <<195, 169>>
    /\ result.value.n300 = 513
    /\ result.value.time_stamp = -2
    /\ result.value.compressed_data = <<93, 94>>
    /\ result.value.online_score_id = 263

\* Replay::parse decodes the buffer and replay_parser leaves nothing over.
DecodesWhole(buffer, checks) ==
    LET r == replay_parser(buffer, checks)
    IN  r.kind = "Ok" /\ r.rest = <<>>

\* C2: when a buffer decodes successfully and is consumed whole, parsing
\* any proper prefix of it fails with UnexpectedEndOfInput and returns no
\* record.
C2_PrefixFailsWithEof ==
    (Parsed /\ Len(input) < Len(full) /\ DecodesWhole(full, overflow_checks)) =>
        /\ result.kind = "Err"
        /\ ErrorKindOf(result.errors) = "UnexpectedEndOfInput"

\* A buffer cut inside its compressed blob (one blob byte and the online
\* score id missing) was refused.
C2_Witness ==
    /\ Parsed
    /\ full = Assemble(<<0>>, AllPresent, DistinctNumbers, 2, <<>>)
    /\ Len(input) = Len(full) - 9
    /\ result.kind = "Err"
    /\ ErrorKindOf(result.errors) = "UnexpectedEndOfInput"

\* The context label replay_parser attaches to a field.
LabelOf(field) ==
    Steps[CHOOSE i \in 1..Len(Steps) : Steps[i].field = field].label

FieldLabels == {Steps[i].label : i \in 1..Len(Steps)}

\* C9: a failure of Replay::parse carries a trace that names exactly one
\* header field, the first one that is not decodable at its position; the
\* trace runs from the innermost step outward and ends with the whole-file
\* label.
C9_TraceNamesFailingField ==
    (Parsed /\ result.kind = "Err") =>
        LET errors == result.errors
            n      == Len(errors)
            bad    == FirstBadField(input)
        IN  /\ result.error = "NomParsingError"
            /\ n >= 3
            /\ errors[n] = [input |-> input, kind |-> "Context",
                            what |-> "Error parsing replay file"]
            /\ bad <= Len(Format)
            /\ errors[n - 1] = [input |-> Drop(input, Layout(input)[bad]),
                                kind |-> "Context", what |-> LabelOf(Format[bad].field)]
            /\ \A j \in 1..(n - 2) :
                  errors[j].what \notin FieldLabels \cup {"Error parsing replay file"}
            /\ \A j \in 1..(n - 1) : Len(errors[j].input) <= Len(errors[j + 1].input)
            /\ errors[1].what \in
                  {"Eof", "Invalid Game Mode", "Error converting bytes to UTF-8"}

\* A buffer cut inside the beatmap hash failed with the four-entry trace
\* Eof, string bytes, beatmap MD5, replay file.
C9_Witness ==
    /\ Parsed
    /\ Len(input) = 7
    /\ result.kind = "Err"
    /\ Len(result.errors) = 4
    /\ result.errors[1].what = "Eof"
    /\ result.errors[2].what = "Expected more bytes for string"
    /\ result.errors[3].what = "Error parsing beatmap MD5"
    /\ result.errors[4].what = "Error parsing replay file"

--------------------------------------------------------------------------
(* replay.rs: decompress_lzma and get_actions.  The decompressed text is   *)
(* a sequence of one-character strings over digits, "+", "-", ".", "|",    *)
(* "," and "x" (a character no number contains).                           *)

DigitChars == <<"0", "1", "2", "3", "4", "5", "6", "7", "8", "9">>

IsDigit(c) == \E d \in 1..10 : DigitChars[d] = c

DigitValue(c) == (CHOOSE d \in 1..10 : DigitChars[d] = c) - 1

\* str::split(sep): the pieces between the separators, at least one piece.
RECURSIVE split(_, _)
split(s, sep) ==
    IF \A i \in 1..Len(s) : s[i] # sep THEN <<s>>
    ELSE LET i == CHOOSE j \in 1..Len(s) :
                    s[j] = sep /\ \A h \in 1..(j - 1) : s[h] # sep
         IN  <<Prefix(s, i - 1)>> \o split(Drop(s, i), sep)

\* A split that keeps the empty piece after a final separator.
split_keeping_last(s, sep) == split(s, sep)

\* str::split_terminator(sep): as split, without the last piece when it is empty.
split_terminator(s, sep) ==
    LET pieces == split(s, sep)
    IN  IF pieces[Len(pieces)] = <<>> THEN Prefix(pieces, Len(pieces) - 1) ELSE pieces

\* The accumulation of from_str_radix: result * 10 + digit, left to right.
RECURSIVE Accumulate(_, _)
Accumulate(digits, acc) ==
    IF digits = <<>> THEN acc
    ELSE Accumulate(Drop(digits, 1), acc * 10 + DigitValue(digits[1]))

ParseOk(v) == [kind |-> "Ok", value |-> v]

\* `?` on a ParseIntError / ParseFloatError: errors.rs From impls.
InvalidValue == [kind |-> "Err", error |-> "InvalidValueError"]

\* ok_or(ReplayDataError::MissingValueError)
MissingValue == [kind |-> "Err", error |-> "MissingValueError"]

\* str::parse::<i64>() (signed) and str::parse::<u32>() (unsigned): an
\* optional sign ("+", and "-" for a signed type) and at least one digit.
\* The texts of the model stay below the overflow of either type.
parse_integer(src, signed) ==
    IF src = <<>> THEN InvalidValue
    ELSE IF src = <<"+">> \/ src = <<"-">> THEN InvalidValue
    ELSE LET negative == signed /\ src[1] = "-"
             digits   == IF src[1] = "+" \/ negative THEN Drop(src, 1) ELSE src
         IN  IF \E i \in 1..Len(digits) : ~IsDigit(digits[i]) THEN InvalidValue
             ELSE IF negative THEN ParseOk(0 - Accumulate(digits, 0))
             ELSE ParseOk(Accumulate(digits, 0))

\* An f32 as the decimal mantissa / 10^scale it was read from (no trailing
\* zero in the mantissa when scale > 0), with its sign bit.
RECURSIVE Decimal(_, _, _)
Decimal(negative, mantissa, scale) ==
    IF scale > 0 /\ mantissa % 10 = 0
    THEN Decimal(negative, mantissa \div 10, scale - 1)
    ELSE [negative |-> negative, mantissa |-> mantissa, scale |-> scale]

\* str::parse::<f32>() on the characters of the model: an optional sign,
\* digits, at most one ".", digits, with at least one digit in all.
parse_f32(src) ==
    IF src = <<>> THEN InvalidValue
    ELSE LET negative == src[1] = "-"
             body     == IF src[1] \in {"+", "-"} THEN Drop(src, 1) ELSE src
             dots     == {i \in 1..Len(body) : body[i] = "."}
         IN  IF body = <<>> THEN InvalidValue
             ELSE IF \E i \in 1..Len(body) : ~IsDigit(body[i]) /\ body[i] # "."
                  THEN InvalidValue
             ELSE IF Cardinality(dots) > 1 \/ Len(body) = Cardinality(dots)
                  THEN InvalidValue
             ELSE LET dot    == IF dots = {} THEN Len(body) + 1
                                ELSE CHOOSE i \in dots : TRUE
                      digits == Prefix(body, dot - 1) \o Drop(body, dot)
                  IN  ParseOk(Decimal(negative, Accumulate(digits, 0), Len(body) + 1 - dot
                                        - (IF dots = {} THEN 0 ELSE 1)))

\* The closure of get_actions on one segment: split on "|", then for each
\* of time, x, y, keys: next() or MissingValueError, parse or InvalidValueError.
decode_segment(data) ==
    LET fields == split(data, "|")
        time   == parse_integer(fields[1], TRUE)
    IN  IF time.kind # "Ok" THEN time
        ELSE IF Len(fields) < 2 THEN MissingValue
        ELSE LET x == parse_f32(fields[2])
        IN  IF x.kind # "Ok" THEN x
        ELSE IF Len(fields) < 3 THEN MissingValue
        ELSE LET y == parse_f32(fields[3])
        IN  IF y.kind # "Ok" THEN y
        ELSE IF Len(fields) < 4 THEN MissingValue
        ELSE LET keys == parse_integer(fields[4], FALSE)
        IN  IF keys.kind # "Ok" THEN keys
        ELSE ParseOk([time |-> time.value, x |-> x.value, y |-> y.value,
                      keys |-> keys.value])

\* A collect that keeps the frames decoded before the first bad segment.
RECURSIVE collect_partial(_, _)
collect_partial(segments, frames) ==
    IF segments = <<>> THEN ParseOk(frames)
    ELSE LET r == decode_segment(segments[1])
         IN  IF r.kind # "Ok" THEN ParseOk(frames)
             ELSE collect_partial(Drop(segments, 1), Append(frames, r.value))

\* collect::<Result<Vec<ReplayData>, _>>(): the frames in order, or the
\* first error and no frame.
RECURSIVE collect(_, _)
collect(segments, frames) ==
    IF segments = <<>> THEN ParseOk(frames)
    ELSE LET r == decode_segment(segments[1])
         IN  IF r.kind # "Ok" THEN r
             ELSE collect(Drop(segments, 1), Append(frames, r.value))

\* decompress_lzma: the codec's failure is LzmaError, bytes that are not
\* UTF-8 are InvalidUtfError, otherwise the text.  `codec` is what
\* lzma_decompress and String::from_utf8 make of self.compressed_data.
decompress_lzma(codec) ==
    CASE codec.kind = "Corrupt" -> [kind |-> "Err", error |-> "LzmaError"]
      [] codec.kind = "NotUtf8" -> [kind |-> "Err", error |-> "InvalidUtfError"]
      [] codec.kind = "Text"    -> ParseOk(codec.text)

get_actions(codec) ==
    LET decompressed_data == decompress_lzma(codec)
    IN  IF decompressed_data.kind # "Ok" THEN decompressed_data
        ELSE collect(split_terminator(decompressed_data.value, ","), <<>>)

--------------------------------------------------------------------------
(* Specification SpecActions: a caller parses a header and calls           *)
(* get_actions on the record.  The codec's output for the record's         *)
(* compressed data is any of: a corrupt stream, bytes that are not UTF-8,  *)
(* or a text of at most MaxSegments segments, with or without a comma      *)
(* after the last one.                                                     *)

MaxSegments == 3

SegmentSamples == {
    <<"0", "|", "0", "|", "0", "|", "0">>,
    <<"1", "0", "0", "|", "5", "0", ".", "5", "|", "6", "0", ".", "2", "5", "|", "1">>,
    <<"-", "5", "|", "-", "1", ".", "5", "|", ".", "5", "|", "+", "3">>,
    <<"1", "|", "2", "|", "3", "|", "4", "|", "5">>,  \* five sub-fields
    <<"1", "|", "2", "|", "3">>,  \* three sub-fields
    <<"x", "|", "2", "|", "3">>,  \* three, the first no number
    <<>>,  \* an empty segment
    <<"1", "|", "2", "|", "3", "|", "x">>,  \* the keys no number
    <<"1", "|", "2", "|", "3", "|", "-", "4">>,  \* negative keys
    <<"1", "|", "2">> }  \* two sub-fields

RECURSIVE Join(_)
\* The segments, a comma after each but the last.
Join(segments) ==
    IF segments = <<>> THEN <<>>
    ELSE IF Len(segments) = 1 THEN segments[1]
    ELSE segments[1] \o <<",">> \o Join(Drop(segments, 1))

Texts ==
    {Join(segments) \o tail :
        segments \in SeqsUpTo(SegmentSamples, MaxSegments), tail \in {<<>>, <<",">>}}

CodecOutputs ==
    {[kind |-> "Corrupt"], [kind |-> "NotUtf8"]} \cup {[kind |-> "Text", text |-> t] : t \in Texts}

InitActions ==
    /\ full = Assemble(<<0>>, [i \in 1..4 |-> PresentString(i)],
                       CHOOSE numbers \in NumberEncodings : numbers.perfect = <<1>>,
                       MaxBlobLen, <<>>)
    /\ input = full
    /\ overflow_checks \in BOOLEAN
    /\ result = None
    /\ replay = NoReplay
    /\ owned = FALSE
    /\ lzma \in CodecOutputs
    /\ calls = 0
    /\ pc = "start"

\* let replay = Replay::parse(&input)?  -- the caller binds the record.
BindReplay ==
    /\ pc = "start"
    /\ LET r == Replay_parse(input, overflow_checks)
       IN  /\ result' = r
           /\ r.kind = "Ok"
           /\ replay' = r.value
           /\ owned' = TRUE
    /\ pc' = "parsed"
    /\ UNCHANGED <<full, input, overflow_checks, lzma, calls>>

\* replay.get_actions(): `self` is taken by value, so the record moves out
\* of the caller's binding and is dropped in the call; a binding that was
\* moved from cannot be used again.
CallGetActions ==
    /\ pc \in {"parsed", "get_actions"}
    /\ owned
    /\ result' = get_actions(lzma)
    /\ owned' = FALSE
    /\ replay' = NoReplay
    /\ calls' = calls + 1
    /\ pc' = "get_actions"
    /\ UNCHANGED <<full, input, overflow_checks, lzma>>

NextActions == BindReplay \/ CallGetActions

SpecActions == InitActions /\ [][NextActions]_vars

--------------------------------------------------------------------------
(* The action text as the specification describes it: records separated    *)
(* by ",", each a "|"-separated tuple.  Pieces are located by the          *)
(* positions of the separators.                                            *)

SeparatorsIn(t, sep) == {i \in 1..Len(t) : t[i] = sep}

NumPieces(t, sep) == Cardinality(SeparatorsIn(t, sep)) + 1

\* The position of the i-th separator; 0 for i = 0, Len(t) + 1 past the last.
SeparatorAt(t, sep, i) ==
    IF i = 0 THEN 0
    ELSE IF i > Cardinality(SeparatorsIn(t, sep)) THEN Len(t) + 1
    ELSE CHOOSE q \in SeparatorsIn(t, sep) :
            Cardinality({r \in SeparatorsIn(t, sep) : r < q}) = i - 1

\* The i-th piece: what lies between separator i-1 and separator i.
Piece(t, sep, i) ==
    SubSeq(t, SeparatorAt(t, sep, i - 1) + 1, SeparatorAt(t, sep, i) - 1)

\* The records of a text: its pieces, without the empty piece after a
\* final comma.
NumRecords(t) ==
    IF t = <<>> THEN 0
    ELSE IF t[Len(t)] = "," THEN NumPieces(t, ",") - 1
    ELSE NumPieces(t, ",")

Record(t, i) == Piece(t, ",", i)

Unsigned(tok) == IF tok # <<>> /\ tok[1] \in {"+", "-"} THEN Drop(tok, 1) ELSE tok

AllDigits(tok) == tok # <<>> /\ \A i \in 1..Len(tok) : IsDigit(tok[i])

\* Literals: a signed integer, an unsigned integer, a decimal number.
IsIntegerLiteral(tok) == AllDigits(Unsigned(tok))

IsKeysLiteral(tok) == tok # <<>> /\ tok[1] # "-" /\ AllDigits(Unsigned(tok))

IsDecimalLiteral(tok) ==
    LET body == Unsigned(tok)
    IN  /\ Cardinality(SeparatorsIn(body, ".")) <= 1
        /\ AllDigits(Piece(body, ".", 1) \o Piece(body, ".", 2))

\* The literal of sub-field j (1 = time, 2 = x, 3 = y, 4 = keys).
IsLiteralFor(j, tok) ==
    CASE j = 1 -> IsIntegerLiteral(tok)
      [] j \in {2, 3} -> IsDecimalLiteral(tok)
      [] j = 4 -> IsKeysLiteral(tok)

RECURSIVE PlaceValue(_)
\* Sum of digit * 10^place, the last digit at place 0.
PlaceValue(digits) ==
    IF digits = <<>> THEN 0
    ELSE DigitValue(digits[Len(digits)]) + 10 * PlaceValue(Prefix(digits, Len(digits) - 1))

IntegerValue(tok) ==
    IF tok[1] = "-" THEN 0 - PlaceValue(Unsigned(tok)) ELSE PlaceValue(Unsigned(tok))

\* The f32 read is the number the decimal literal spells.
SpellsDecimal(f, tok) ==
    LET body     == Unsigned(tok)
        whole    == Piece(body, ".", 1)
        fraction == Piece(body, ".", 2)
    IN  /\ f.negative = (tok[1] = "-")
        /\ f.mantissa * (10 ^ Len(fraction))
              = PlaceValue(whole \o fraction) * (10 ^ f.scale)

\* A record of exactly four sub-fields, each a literal of its type.
IsWellFormedRecord(rec) ==
    /\ NumPieces(rec, "|") = 4
    /\ \A j \in 1..4 : IsLiteralFor(j, Piece(rec, "|", j))

FrameSpells(frame, rec) ==
    /\ frame.time = IntegerValue(Piece(rec, "|", 1))
    /\ SpellsDecimal(frame.x, Piece(rec, "|", 2))
    /\ SpellsDecimal(frame.y, Piece(rec, "|", 3))
    /\ frame.keys = IntegerValue(Piece(rec, "|", 4))

GotActions == pc = "get_actions" /\ lzma.kind = "Text"

\* C6: a text of n well-formed records, each followed by a comma, decodes
\* to exactly n frames, the i-th holding the literal values of the i-th
\* record; the empty piece after the final comma yields no frame, the
\* empty text yields none.
C6_FramesInOrder ==
    (/\ GotActions
     /\ lzma.text # <<>> => lzma.text[Len(lzma.text)] = ","
     /\ \A i \in 1..NumRecords(lzma.text) : IsWellFormedRecord(Record(lzma.text, i)))
    => /\ result.kind = "Ok"
       /\ Len(result.value) = NumRecords(lzma.text)
       /\ \A i \in 1..NumRecords(lzma.text) :
            FrameSpells(result.value[i], Record(lzma.text, i))

\* The text "0|0|0|0,100|50.5|60.25|1," gave exactly the two frames
\* {0, 0.0, 0.0, 0} and {100, 50.5, 60.25, 1}.
C6_Witness ==
    /\ GotActions
    /\ lzma.text = <<"0", "|", "0", "|", "0", "|", "0", ",",
                    "1", "0", "0", "|", "5", "0", ".", "5", "|",
                    "6", "0", ".", "2", "5", "|", "1", ",">>
    /\ result.kind = "Ok"
    /\ result.value =
        << [time |-> 0,
            x |-> [negative |-> FALSE, mantissa |-> 0, scale |-> 0],
            y |-> [negative |-> FALSE, mantissa |-> 0, scale |-> 0],
            keys |-> 0],
           [time |-> 100,
            x |-> [negative |-> FALSE, mantissa |-> 505, scale |-> 1],
            y |-> [negative |-> FALSE, mantissa |-> 6025, scale |-> 2],
            keys |-> 1] >>

\* A record get_actions decodes: at least four sub-fields, the first four
\* literals of their types.
IsDecodableRecord(rec) ==
    /\ NumPieces(rec, "|") >= 4
    /\ \A j \in 1..4 : IsLiteralFor(j, Piece(rec, "|", j))

\* A record with fewer than four sub-fields.
IsShortRecord(rec) == NumPieces(rec, "|") < 4

\* C7 (as claimed): whenever some record of the text has fewer than four
\* sub-fields, get_actions fails with MissingField, whatever the contents
\* of the sub-fields present.
C7_ShortRecordIsMissingField ==
    (GotActions /\ \E i \in 1..NumRecords(lzma.text) : IsShortRecord(Record(lzma.text, i)))
    => result = MissingValue

\* C7 (amended): when a record has fewer than four sub-fields, each
\* sub-field it has is a literal of its type, and every record before it
\* decodes, get_actions fails with MissingField and returns no frame.
C7_ShortRecordAfterGoodOnes ==
    GotActions =>
        \A i \in 1..NumRecords(lzma.text) :
            LET rec == Record(lzma.text, i)
            IN  (/\ IsShortRecord(rec)
                 /\ \A j \in 1..NumPieces(rec, "|") : IsLiteralFor(j, Piece(rec, "|", j))
                 /\ \A h \in 1..(i - 1) : IsDecodableRecord(Record(lzma.text, h)))
                => result = MissingValue

\* The text "0|0|0|0,1|2|3," failed with MissingValueError although its
\* first record decodes.
C7_Witness ==
    /\ GotActions
    /\ lzma.text = <<"0", "|", "0", "|", "0", "|", "0", ",", "1", "|", "2", "|", "3", ",">>
    /\ result = MissingValue

\* C8 (as claimed): a call of get_actions leaves the record with all its
\* fields unchanged and usable in the caller, so that it can be called again.
C8_RecordSurvivesGetActions ==
    [][calls' = calls + 1 => (owned' /\ replay' = replay)]_vars

==========================================================================
